---- MODULE Spec2Model ----
(***************************************************************************)
(* A model of MindsetIO/log-stream.                                        *)
(*                                                                         *)
(*   log_stream.py        one thread per configured (type, logfile, regex) *)
(*                        job: LogStream.stream opens the file, tails it   *)
(*                        and sends every line to one coroutine per        *)
(*                        pattern, which posts the matching records.       *)
(*   log_tracking_app.py  main(logline, record): parse, geolocate, history,*)
(*                        rate statistics.                                 *)
(*                                                                         *)
(* A file is a sequence of tokens (characters); "\n" ends a line.          *)
(***************************************************************************)
EXTENDS Integers, Sequences, FiniteSets, TLC

\* ------------------------------------------------------------------ bounds
\* What happens to the tailed files in one run: the lines appended and the
\* rotations, all paths together.
MaxEvents == 3
\* Lines a file may already hold when the process starts.
MaxInit == 1
\* Calls of main in one run of the local stream simulation.
MaxCalls == 2
\* The arrival timestamps of the loglines are 0..MaxTime (seconds).
MaxTime == 2
\* Records in a history handed to make_stats.
MaxHist == 5

\* --------------------------------------------------------- configuration
\* config.json: one job per record type (log_stream.py:87-92).
Tasks == {1, 2}

RecType(t) == IF t = 1 THEN "ufw_block" ELSE "ssh_invalid"

Logfile(t) == IF t = 1 THEN "f1" ELSE "f2"

\* self.regex: a list of patterns (log_stream.py:36); here each pattern is a
\* one-token regular expression.
Regex(t) == IF t = 1 THEN <<"a", "b">> ELSE <<"b">>

Paths == {Logfile(t) : t \in Tasks}

\* The texts the writer appends, each one newline-terminated line.
LineTexts == { <<" ", "a", "b", "\n">>, <<"b", "\n">>, <<"c", "\n">> }

\* The line a file holds before the process starts.
OldLine == <<"a", "b", "\n">>

WS == {" ", "\n"}

\* ---------------------------------------------------------------- helpers
RECURSIVE Repeat(_, _)
Repeat(s, n) == IF n = 0 THEN <<>> ELSE s \o Repeat(s, n - 1)

\* The lines of a text: each up to and including its "\n"; what follows the
\* last "\n" is a last, unterminated line.
RECURSIVE LinesFrom(_, _)
LinesFrom(s, acc) ==
    IF s = <<>> THEN (IF acc = <<>> THEN <<>> ELSE <<acc>>)
    ELSE IF Head(s) = "\n" THEN <<Append(acc, "\n")>> \o LinesFrom(Tail(s), <<>>)
    ELSE LinesFrom(Tail(s), Append(acc, Head(s)))

Lines(s) == LinesFrom(s, <<>>)

\* fh.readline() at offset p of content f: the tokens after p up to and
\* including the next "\n", or up to the end of the file; <<>> at the end.
ReadLine(f, p) ==
    LET nls == {i \in (p + 1)..Len(f) : f[i] = "\n"}
        stop == IF nls = {} THEN Len(f)
                ELSE CHOOSE i \in nls : \A j \in nls : i <= j
    IN SubSeq(f, p + 1, stop)

\* str.strip(): without its leading and trailing whitespace.
Strip(s) ==
    LET keep == {i \in 1..Len(s) : s[i] \notin WS}
    IN IF keep = {} THEN <<>>
       ELSE LET lo == CHOOSE i \in keep : \A j \in keep : i <= j
                hi == CHOOSE i \in keep : \A j \in keep : i >= j
            IN SubSeq(s, lo, hi)

\* re.findall(re_str, record) is non-empty: the pattern occurs in the record.
Search(re, record) == \E i \in 1..Len(record) : record[i] = re

\* ------------------------------------------- log_tracking_app.py: parsing
\* A logline's content is a sequence of tokens: the words between single
\* spaces ("" between two adjacent spaces), with each delimiter the parsers
\* split by as one token.
D_UFW == " [UFW BLOCK] "

D_INV == ": Invalid user "

D_AUTH == ": Connection closed by authenticating user "

\* Python's None, among strings.
None == "<None>"

\* What a call gives: a value, None, or an exception.
Ok(v) == [ok |-> TRUE, none |-> FALSE, exc |-> "", val |-> v]

RetNone == [ok |-> TRUE, none |-> TRUE, exc |-> "", val |-> <<>>]

Raise(e) == [ok |-> FALSE, none |-> FALSE, exc |-> e, val |-> <<>>]

\* str.split(d) with d a delimiter token: the segments between its
\* occurrences.
RECURSIVE SplitAcc(_, _, _)
SplitAcc(s, d, acc) ==
    IF s = <<>> THEN <<acc>>
    ELSE IF Head(s) = d THEN <<acc>> \o SplitAcc(Tail(s), d, <<>>)
    ELSE SplitAcc(Tail(s), d, Append(acc, Head(s)))

SplitBy(s, d) == SplitAcc(s, d, <<>>)

\* str.split(" ") of a segment: its tokens; of the empty string, [""].
SplitSpace(seg) == IF seg = <<>> THEN <<"">> ELSE seg

\* str.split("=") of a payload token.
SplitEq(tok) ==
    CASE tok = "SRC=1.2.3.4" -> <<"SRC", "1.2.3.4">>
      [] tok = "SRC=10.0.0.5" -> <<"SRC", "10.0.0.5">>
      [] tok = "DPT=22" -> <<"DPT", "22">>
      [] tok = "PROTO=TCP" -> <<"PROTO", "TCP">>
      [] tok = "IN=eth0" -> <<"IN", "eth0">>
      [] tok = "OUT=" -> <<"OUT", "">>
      [] tok = "A=B=C" -> <<"A", "B", "C">>
      [] OTHER -> <<tok>>

\* strptime's %b, and int(day) with %d; 0 where they raise ValueError.
MonthNo(mo) ==
    CASE mo = "Jan" -> 1
      [] mo = "Feb" -> 2
      [] mo = "Dec" -> 12
      [] OTHER -> 0

DayNo(day) ==
    CASE day = "5" -> 5
      [] day = "05" -> 5
      [] day = "31" -> 31
      [] OTHER -> 0

TimesOfDay == {"02:14:33", "23:59:59"}

\* format_timestamp: the month, day and time of the log with today's year.
FormatTimestamp(mo, day, hhmm) ==
    IF MonthNo(mo) = 0 \/ DayNo(day) = 0 \/ hhmm \notin TimesOfDay
    THEN Raise("ValueError")
    ELSE Ok(<<"today.year", MonthNo(mo), DayNo(day), hhmm>>)

\* record_parse: the content must split in exactly two at split_with, and the
\* first part must hold at least four words; every failure is a ValueError.
RecordParse(logline, split_with) ==
    LET parts == SplitBy(logline.content, split_with)
    IN IF Len(parts) # 2 THEN Raise("ValueError")
       ELSE LET meta == SelectSeq(parts[1], LAMBDA w : w # "")
            IN IF Len(meta) < 4 THEN Raise("ValueError")
               ELSE LET ts == FormatTimestamp(meta[1], meta[2], meta[3])
                    IN IF ~ts.ok THEN Raise("ValueError")
                       ELSE Ok([common |-> [host |-> meta[4],
                                            event_time |-> ts.val,
                                            timestamp |-> logline.timestamp],
                                rec |-> SplitSpace(parts[2])])

\* A variant of UfwBlock: an empty value stays the empty string.
UfwBlock_KeepsEmpty(logline) ==
    LET r == RecordParse(logline, D_UFW)
    IN IF ~r.ok THEN r
       ELSE LET rec == r.val.rec
                kv == {i \in 1..Len(rec) : Len(SplitEq(rec[i])) = 2}
                keys == {SplitEq(rec[i])[1] : i \in kv}
                last(key) == CHOOSE i \in kv :
                                /\ SplitEq(rec[i])[1] = key
                                /\ \A j \in kv : SplitEq(rec[j])[1] = key => j <= i
            IN Ok([common |-> r.val.common,
                   parsed |-> [key \in keys |-> SplitEq(rec[last(key)])[2]]])

\* parse_ufw_block, undecorated: the KEY=VALUE tokens of the payload; an empty
\* value is None, a later token of the same key wins.
UfwBlock(logline) ==
    LET r == RecordParse(logline, D_UFW)
    IN IF ~r.ok THEN r
       ELSE LET rec == r.val.rec
                kv == {i \in 1..Len(rec) : Len(SplitEq(rec[i])) = 2}
                keys == {SplitEq(rec[i])[1] : i \in kv}
                last(key) == CHOOSE i \in kv :
                                /\ SplitEq(rec[i])[1] = key
                                /\ \A j \in kv : SplitEq(rec[j])[1] = key => j <= i
                value(i) == IF SplitEq(rec[i])[2] = "" THEN None
                            ELSE SplitEq(rec[i])[2]
            IN Ok([common |-> r.val.common,
                   parsed |-> [key \in keys |-> value(last(key))]])

\* A variant of Formats: the second sub-format indexed like the first.
Formats_SameIdxs ==
    << [split_by |-> D_INV, record_type |-> "SSH_INVALID", idxs |-> <<4, 2, 0>>],
       [split_by |-> D_AUTH, record_type |-> "SSH_AUTH", idxs |-> <<4, 2, 0>>] >>

\* parse_ssh_invalid: the sub-formats, in the order they are tried; idxs are
\* the (0-based) payload indexes of DPT, SRC and USERNAME.
Formats ==
    << [split_by |-> D_INV, record_type |-> "SSH_INVALID", idxs |-> <<4, 2, 0>>],
       [split_by |-> D_AUTH, record_type |-> "SSH_AUTH", idxs |-> <<3, 1, 0>>] >>

\* rec[i], 0-based.
At(rec, i) == rec[i + 1]

\* parse_ssh_invalid, undecorated: the first sub-format whose record_parse
\* raises no ValueError. An IndexError of the field lookup is not caught; when
\* the loop ends the function returns None.
RECURSIVE SshFrom(_, _)
SshFrom(logline, i) ==
    IF i > Len(Formats) THEN RetNone
    ELSE LET f == Formats[i]
             r == RecordParse(logline, f.split_by)
         IN IF ~r.ok THEN SshFrom(logline, i + 1)
            ELSE IF \E j \in 1..3 : f.idxs[j] >= Len(r.val.rec)
            THEN Raise("IndexError")
            ELSE Ok([common |-> r.val.common,
                     parsed |-> [DPT |-> At(r.val.rec, f.idxs[1]),
                                 SRC |-> At(r.val.rec, f.idxs[2]),
                                 USERNAME |-> At(r.val.rec, f.idxs[3])]])

SshInvalid(logline) == SshFrom(logline, 1)

\* The GeoLite2 database: the addresses it knows, and the strings that are
\* addresses at all.
GeoKnown == {"1.2.3.4"}

Addresses == {"1.2.3.4", "10.0.0.5"}

\* geo_data: reader.city(ipaddr) raises AddressNotFoundError for an address
\* the database does not hold and ValueError for a string that is no address;
\* geo_data catches neither.
GeoData(ipaddr) ==
    IF ipaddr \in GeoKnown
    THEN Ok([iso_code |-> "US", country |-> "United States",
             subdivision |-> "CA", city |-> "Mountain View",
             coords |-> [lat |-> 37, lon |-> -122]])
    ELSE IF ipaddr \in Addresses THEN Raise("AddressNotFoundError")
    ELSE Raise("ValueError")

\* {**f, **g}
Merge(f, g) ==
    [x \in DOMAIN f \cup DOMAIN g |-> IF x \in DOMAIN g THEN g[x] ELSE f[x]]

\* func.__name__.removeprefix("parse_").upper()
UpperName(type) ==
    CASE type = "ufw_block" -> "UFW_BLOCK"
      [] type = "ssh_invalid" -> "SSH_INVALID"

\* log_decorator(ip_key)(func): unpacks what func returned (None cannot be
\* unpacked: TypeError), looks up the address field (KeyError when the record
\* has none) and adds what geo_data returns; no exception is caught.
LogDecorator(ip_key, type, r) ==
    IF ~r.ok THEN r
    ELSE IF r.none THEN Raise("TypeError")
    ELSE IF ip_key \notin DOMAIN r.val.parsed THEN Raise("KeyError")
    ELSE LET geoip == GeoData(r.val.parsed[ip_key])
         IN IF ~geoip.ok THEN geoip
            ELSE Ok(Merge(Merge(r.val.common, r.val.parsed),
                          [type |-> UpperName(type), geoip |-> geoip.val]))

ParseUfwBlock(logline) == LogDecorator("SRC", "ufw_block", UfwBlock(logline))

ParseSshInvalid(logline) == LogDecorator("SRC", "ssh_invalid", SshInvalid(logline))

\* A record of the history that is None.
NoneRec == [none |-> TRUE]

IsNone(rec) == "none" \in DOMAIN rec

RECURSIVE Sum(_)
Sum(s) == IF s = <<>> THEN 0 ELSE Head(s) + Sum(Tail(s))

\* A variant of MakeStats: the rate counts the events, not the gaps.
MakeStats_CountsEvents(history) ==
    LET recs == SelectSeq(history, LAMBDA r : ~IsNone(r))
        types == {recs[i].type : i \in 1..Len(recs)}
        v(ty) == LET of == SelectSeq(recs, LAMBDA r : r.type = ty)
                 IN [i \in 1..Len(of) |-> of[i].timestamp]
        tdiff(ty) == [i \in 1..(Len(v(ty)) - 1) |-> v(ty)[i + 1] - v(ty)[i]]
    IN [ty \in {x \in types : Sum(tdiff(x)) # 0} |->
          [num |-> 60 * Len(v(ty)), den |-> Sum(tdiff(ty)),
           count |-> Len(v(ty))]]

\* A variant of MakeStats: ZeroDivisionError is not caught, so a type whose
\* sum(tdiff) is 0 ends the call and no type gets an entry.
MakeStats_Raises(history) ==
    LET recs == SelectSeq(history, LAMBDA r : ~IsNone(r))
        types == {recs[i].type : i \in 1..Len(recs)}
        v(ty) == LET of == SelectSeq(recs, LAMBDA r : r.type = ty)
                 IN [i \in 1..Len(of) |-> of[i].timestamp]
        tdiff(ty) == [i \in 1..(Len(v(ty)) - 1) |-> v(ty)[i + 1] - v(ty)[i]]
    IN [ty \in {x \in types : \A y \in types : Sum(tdiff(y)) # 0} |->
          [num |-> 60 * Len(tdiff(ty)), den |-> Sum(tdiff(ty)),
           count |-> Len(v(ty))]]

\* make_stats: per type the timestamps of its records in history order; the
\* rate is 60 / sum(tdiff) * len(tdiff), kept as the fraction num / den; a
\* type whose sum(tdiff) is 0 raises ZeroDivisionError and gets no entry.
MakeStats(history) ==
    LET recs == SelectSeq(history, LAMBDA r : ~IsNone(r))
        types == {recs[i].type : i \in 1..Len(recs)}
        v(ty) == LET of == SelectSeq(recs, LAMBDA r : r.type = ty)
                 IN [i \in 1..Len(of) |-> of[i].timestamp]
        tdiff(ty) == [i \in 1..(Len(v(ty)) - 1) |-> v(ty)[i + 1] - v(ty)[i]]
    IN [ty \in {x \in types : Sum(tdiff(x)) # 0} |->
          [num |-> 60 * Len(tdiff(ty)), den |-> Sum(tdiff(ty)),
           count |-> Len(v(ty))]]

\* No logline: main's `if logline` is false.
NoLogline == [type |-> "", content |-> <<>>, timestamp |-> 0]

\* main(logline, record): globals()[f"parse_{type}"](logline), then
\* history = (record or []) + [new_record] if new_record else [], then the
\* statistics of that history.
Main(logline, record) ==
    LET r == IF logline = NoLogline THEN RetNone
             ELSE IF logline.type = "ufw_block" THEN ParseUfwBlock(logline)
             ELSE ParseSshInvalid(logline)
    IN IF ~r.ok THEN r
       ELSE LET new_record == IF r.none THEN NoneRec ELSE r.val
                history == IF ~r.none THEN Append(record, new_record) ELSE <<>>
            IN Ok([record |-> new_record, history |-> history,
                   stats |-> MakeStats(history)])

\* The loglines the simulation feeds to main.
SshMeta == <<"Jan", "", "5", "02:14:33", "host", "sshd[123]">>

UfwMeta == <<"Jan", "5", "02:14:33", "host", "kernel:", "[12.3]">>

Contents ==
    { SshMeta \o <<D_INV, "admin", "from", "10.0.0.5", "port", "51515">>,
      SshMeta \o <<D_INV, "admin", "from", "1.2.3.4", "port", "51515">>,
      SshMeta \o <<D_INV, "admin", "from", "unknown", "port", "51515">>,
      SshMeta \o <<D_INV, "admin", "from", "1.2.3.4">>,
      SshMeta \o <<D_AUTH, "root", "1.2.3.4", "port", "22", "[preauth]">>,
      SshMeta \o <<D_AUTH, "root", "1.2.3.4", "port", "22",
                   D_INV, "x", "from", "1.2.3.4", "port", "22">>,
      SshMeta \o <<":", "Accepted", "password">>,
      <<"Jan", "5">> \o <<D_AUTH, "root", "1.2.3.4", "port", "22">>,
      UfwMeta \o <<D_UFW, "SRC=1.2.3.4", "DPT=22", "PROTO=TCP">>,
      UfwMeta \o <<D_UFW, "IN=eth0", "OUT=", "SRC=10.0.0.5", "SYN", "A=B=C">>,
      UfwMeta \o <<D_UFW, "DPT=22", "OUT=">> }

Loglines ==
    [type : {"ufw_block", "ssh_invalid"}, content : Contents,
     timestamp : 0..MaxTime]

\* ------------------------------------------------------------------ state
VARIABLES
    files,      \* path -> the files that had this path, oldest first; the
                \* last one is the file now at the path (<<>>: no such file)
    events,     \* the appends and rotations so far
    pc,         \* task -> where its thread is
    cause,      \* task -> the exception that ended its thread ("" if none)
    handle,     \* task -> which file of its path fh refers to (0: none)
    start,      \* task -> the offset tail's fh.seek(0, 2) found
    pos,        \* task -> fh's read offset
    cur,        \* task -> the line the for loop holds
    k,          \* task -> the index of the coroutine the line goes to next
    delivered,  \* task -> the lines tail yielded
    seen,       \* task -> the (line, pattern) evaluations made
    posts,      \* task -> the post_record calls made
    samples,    \* samples.jsonl: the records written, with their writer
    record,     \* the simulation's history: what main returned as "record"
    logline,    \* the logline of the last call of main
    resp,       \* what the last call of main returned
    apc,        \* the simulation: "run", or "crashed" by an exception
    exc,        \* the exception that left main ("" if none)
    hist,       \* the history make_stats is called with
    adct        \* what that call of make_stats returned

svars == <<files, events, pc, cause, handle, start, pos, cur, k,
           delivered, seen, posts, samples>>

avars == <<record, logline, resp, apc, exc, hist, adct>>

vars == <<svars, avars>>

\* The content of the file task t's handle refers to.
HFile(t) == files[Logfile(t)][handle[t]]

InitContents == {Repeat(OldLine, n) : n \in 0..MaxInit}

SInit ==
    /\ files \in [Paths -> {<<>>} \cup {<<c>> : c \in InitContents}]
    /\ events = 0
    /\ pc = [t \in Tasks |-> "start"]
    /\ cause = [t \in Tasks |-> ""]
    /\ handle = [t \in Tasks |-> 0]
    /\ start = [t \in Tasks |-> 0]
    /\ pos = [t \in Tasks |-> 0]
    /\ cur = [t \in Tasks |-> <<>>]
    /\ k = [t \in Tasks |-> 0]
    /\ delivered = [t \in Tasks |-> <<>>]
    /\ seen = [t \in Tasks |-> <<>>]
    /\ posts = [t \in Tasks |-> <<>>]
    /\ samples = <<>>

AInit ==
    /\ record = <<>>
    /\ logline = NoLogline
    /\ resp = [record |-> NoneRec, history |-> <<>>, stats |-> MakeStats(<<>>)]
    /\ apc = "run"
    /\ exc = ""
    /\ hist = <<>>
    /\ adct = MakeStats(<<>>)

Init == SInit /\ AInit

\* ------------------------------------------------------------ environment
\* The writer appends one whole line to the file now at path p.
AppendLine(p) ==
    /\ files[p] # <<>>
    /\ events < MaxEvents
    /\ \E l \in LineTexts :
          files' = [files EXCEPT ![p][Len(files[p])] = @ \o l]
    /\ events' = events + 1
    /\ UNCHANGED <<pc, cause, handle, start, pos, cur, k, delivered, seen,
                   posts, samples>>
    /\ UNCHANGED avars

\* Rotation: the file at path p is moved away and a new, empty one takes the
\* path; open handles keep referring to the old file.
Rotate(p) ==
    /\ files[p] # <<>>
    /\ events < MaxEvents
    /\ files' = [files EXCEPT ![p] = Append(@, <<>>)]
    /\ events' = events + 1
    /\ UNCHANGED <<pc, cause, handle, start, pos, cur, k, delivered,
                   seen, posts, samples>>
    /\ UNCHANGED avars

\* The first part of a line, as the writer's first write of it leaves it in the
\* file: no newline yet.
PartTexts == { <<" ", "a">> }

\* The writer appends the first part of a line to the file now at path p; the
\* rest of the line comes with a later write.
AppendPart(p) ==
    /\ files[p] # <<>>
    /\ events < MaxEvents
    /\ LET f == files[p][Len(files[p])]
       IN IF f = <<>> THEN TRUE ELSE f[Len(f)] = "\n"
    /\ \E l \in PartTexts :
          files' = [files EXCEPT ![p][Len(files[p])] = @ \o l]
    /\ events' = events + 1
    /\ UNCHANGED <<pc, cause, handle, start, pos, cur, k, delivered, seen,
                   posts, samples>>
    /\ UNCHANGED avars

\* ------------------------------------------------------------------ tasks
\* A variant of Crash: the uncaught exception ends the whole process.
Crash_ExitsProcess(t, e) ==
    /\ pc' = [u \in Tasks |-> "crashed"]
    /\ cause' = [cause EXCEPT ![t] = e]

\* An uncaught exception ends the thread of task t, and only that thread.
Crash(t, e) ==
    /\ pc' = [pc EXCEPT ![t] = "crashed"]
    /\ cause' = [cause EXCEPT ![t] = e]

\* stream: fh = open(self.logfile). A missing file raises FileNotFoundError,
\* which nothing catches.
Open(t) ==
    /\ pc[t] = "start"
    /\ IF files[Logfile(t)] = <<>>
       THEN /\ Crash(t, "FileNotFoundError")
            /\ UNCHANGED handle
       ELSE /\ handle' = [handle EXCEPT ![t] = Len(files[Logfile(t)])]
            /\ pc' = [pc EXCEPT ![t] = "seek"]
            /\ UNCHANGED cause
    /\ UNCHANGED <<files, events, start, pos, cur, k, delivered, seen,
                   posts, samples>>
    /\ UNCHANGED avars

\* A variant of Seek: fh.seek(0, 0), reading from the start of the file.
Seek_FromStart(t) ==
    /\ pc[t] = "seek"
    /\ pos' = [pos EXCEPT ![t] = 0]
    /\ start' = [start EXCEPT ![t] = Len(HFile(t))]
    /\ pc' = [pc EXCEPT ![t] = "read"]
    /\ UNCHANGED <<files, events, cause, handle, cur, k, delivered, seen,
                   posts, samples>>
    /\ UNCHANGED avars

\* tail: fh.seek(0, 2), run when the for loop first asks the generator for a
\* line.
Seek(t) ==
    /\ pc[t] = "seek"
    /\ pos' = [pos EXCEPT ![t] = Len(HFile(t))]
    /\ start' = [start EXCEPT ![t] = Len(HFile(t))]
    /\ pc' = [pc EXCEPT ![t] = "read"]
    /\ UNCHANGED <<files, events, cause, handle, cur, k, delivered, seen,
                   posts, samples>>
    /\ UNCHANGED avars

\* tail: line = fh.readline(); a non-empty line is yielded to the for loop of
\* stream, an empty one sends the generator to sleep.
Read(t) ==
    /\ pc[t] = "read"
    /\ LET line == ReadLine(HFile(t), pos[t])
       IN IF line # <<>>
          THEN /\ pos' = [pos EXCEPT ![t] = @ + Len(line)]
               /\ delivered' = [delivered EXCEPT ![t] = Append(@, line)]
               /\ cur' = [cur EXCEPT ![t] = line]
               /\ k' = [k EXCEPT ![t] = 1]
               /\ pc' = [pc EXCEPT ![t] = "send"]
          ELSE /\ pc' = [pc EXCEPT ![t] = "sleep"]
               /\ UNCHANGED <<pos, delivered, cur, k>>
    /\ UNCHANGED <<files, events, cause, handle, start, seen, posts,
                   samples>>
    /\ UNCHANGED avars

\* tail: fh.readline() raises (an I/O error on the handle); nothing in tail or
\* stream catches it.
ReadError(t) ==
    /\ pc[t] = "read"
    /\ Crash(t, "OSError")
    /\ UNCHANGED <<files, events, handle, start, pos, cur, k, delivered,
                   seen, posts, samples>>
    /\ UNCHANGED avars

\* tail: time.sleep(0.1), then the loop reads again.
Sleep(t) ==
    /\ pc[t] = "sleep"
    /\ pc' = [pc EXCEPT ![t] = "read"]
    /\ UNCHANGED <<files, events, cause, handle, start, pos, cur, k,
                   delivered, seen, posts, samples>>
    /\ UNCHANGED avars

\* A variant of AfterSend: the for loop asks tail for the next line after the
\* first coroutine, and the other coroutines never get the line.
AfterSend_NextLine(t) ==
    /\ k' = [k EXCEPT ![t] = 0]
    /\ pc' = [pc EXCEPT ![t] = "read"]
    /\ cur' = [cur EXCEPT ![t] = <<>>]

\* stream: after m.send(line) returned, the next coroutine gets the line, and
\* after the last one the for loop asks tail for the next line.
AfterSend(t) ==
    IF k[t] < Len(Regex(t))
    THEN /\ k' = [k EXCEPT ![t] = @ + 1]
         /\ pc' = [pc EXCEPT ![t] = "send"]
         /\ UNCHANGED cur
    ELSE /\ k' = [k EXCEPT ![t] = 0]
         /\ pc' = [pc EXCEPT ![t] = "read"]
         /\ cur' = [cur EXCEPT ![t] = <<>>]

\* The record post_record builds: the trimmed line and the record type.
Logline(t, rcd) == [type |-> RecType(t), content |-> rcd]

\* stream: m.send(line) for coroutine k; _matches strips the line and searches
\* its pattern in it. On a match post_record is called: it appends the record
\* to samples.jsonl (the buffered text is written when the file is closed),
\* then posts it.
Send(t) ==
    /\ pc[t] = "send"
    /\ LET rcd == Strip(cur[t])
           n == Len(delivered[t])
       IN /\ seen' = [seen EXCEPT ![t] = Append(@, <<n, k[t]>>)]
          /\ IF Search(Regex(t)[k[t]], rcd)
             THEN /\ posts' = [posts EXCEPT ![t] =
                         Append(@, [line |-> n, pat |-> k[t],
                                    logline |-> Logline(t, rcd)])]
                  /\ samples' = Append(samples, [task |-> t, line |-> n])
                  /\ pc' = [pc EXCEPT ![t] = "urlopen"]
                  /\ UNCHANGED <<k, cur>>
             ELSE /\ AfterSend(t)
                  /\ UNCHANGED <<posts, samples>>
    /\ UNCHANGED <<files, events, cause, handle, start, pos, delivered>>
    /\ UNCHANGED avars

\* post_record: urlopen(req) returns, or raises HTTPError, which is caught and
\* logged: either way post_record returns. Or it raises anything else
\* (URLError: the endpoint is unreachable), which is not caught and leaves
\* _matches, stream and the thread.
Urlopen(t) ==
    /\ pc[t] = "urlopen"
    /\ \/ /\ AfterSend(t)
          /\ UNCHANGED cause
       \/ /\ Crash(t, "URLError")
          /\ UNCHANGED <<k, cur>>
    /\ UNCHANGED <<files, events, handle, start, pos, delivered, seen,
                   posts, samples>>
    /\ UNCHANGED avars

TaskNext(t) ==
    \/ Open(t)
    \/ Seek(t)
    \/ Read(t)
    \/ ReadError(t)
    \/ Sleep(t)
    \/ Send(t)
    \/ Urlopen(t)

EnvNext == \E p \in Paths : AppendLine(p) \/ Rotate(p)

Next == EnvNext \/ \E t \in Tasks : TaskNext(t)

Spec == Init /\ [][Next]_vars

\* Every thread that can take a step eventually takes one.
FairSpec == Spec /\ \A t \in Tasks : WF_vars(TaskNext(t))

\* The tasks with a writer that writes a line in more than one write.
PartNext == Next \/ \E p \in Paths : AppendPart(p)

PartSpec == Init /\ [][PartNext]_vars

\* ------------------------------------- log_tracking_app.py: the simulation
\* __main__: for logline in stream_data(): resp = main(logline, record);
\* record.append(resp["record"]). An exception that leaves main ends the loop.
MainCall ==
    /\ apc = "run"
    /\ Len(record) < MaxCalls
    /\ \E l \in Loglines \cup {NoLogline} :
          LET r == Main(l, record)
          IN /\ logline' = l
             /\ IF r.ok
                THEN /\ record' = Append(record, r.val.record)
                     /\ resp' = r.val
                     /\ UNCHANGED <<apc, exc>>
                ELSE /\ apc' = "crashed"
                     /\ exc' = r.exc
                     /\ UNCHANGED <<record, resp>>
    /\ UNCHANGED <<hist, adct>>
    /\ UNCHANGED svars

AppInit == AInit /\ SInit /\ files = [p \in Paths |-> <<>>]

AppSpec == AppInit /\ [][MainCall]_vars

\* --------------------------------------- log_tracking_app.py: make_stats
\* rec["type"] of the records the parsers return.
StatTypes == {UpperName("ufw_block"), UpperName("ssh_invalid")}

\* rec["timestamp"], in seconds after the first one.
Times == {0, 120, 240, 360, 480}

\* The entries of a history: parsed records, of which make_stats reads the type
\* and the timestamp, and None.
HistRecs == [type : StatTypes, timestamp : Times] \cup {NoneRec}

\* stats = make_stats(history), for the history one record longer each time.
StatsCall ==
    /\ Len(hist) < MaxHist
    /\ \E rec \in HistRecs :
          /\ hist' = Append(hist, rec)
          /\ adct' = MakeStats(Append(hist, rec))
    /\ UNCHANGED <<record, logline, resp, apc, exc>>
    /\ UNCHANGED svars

StatsSpec == AppInit /\ [][StatsCall]_vars

\* ----------------------------------------------------------------- claims
\* Task t is in the loop of tail or in the body of the for loop of stream.
Tailing(t) == pc[t] \in {"read", "sleep", "send", "urlopen"}

Range(s) == {s[i] : i \in 1..Len(s)}

IsPrefix(s, u) == Len(s) <= Len(u) /\ s = SubSeq(u, 1, Len(s))

\* C1 (tailing skip): nothing of what the file held when tail sought its end
\* is delivered; the delivered lines are exactly the lines between that offset
\* and the read offset, so a prefix of the lines appended since, in append
\* order, and none twice.
C1_TailingSkip ==
    \A t \in Tasks :
       IF handle[t] = 0 \/ pc[t] = "seek"
       THEN delivered[t] = <<>>
       ELSE /\ start[t] <= pos[t]
            /\ pos[t] <= Len(HFile(t))
            /\ delivered[t] = Lines(SubSeq(HFile(t), start[t] + 1, pos[t]))
            /\ IsPrefix(delivered[t],
                        Lines(SubSeq(HFile(t), start[t] + 1, Len(HFile(t)))))

\* A file that held a line at the start, and two appended lines delivered.
C1_Witness ==
    \E t \in Tasks : start[t] > 0 /\ Len(delivered[t]) >= 2

\* The patterns of task t that match its n-th delivered line.
Matching(t, n) ==
    {j \in 1..Len(Regex(t)) : Search(Regex(t)[j], Strip(delivered[t][n]))}

\* The post_record calls task t made for pattern j on its n-th line.
PostsOf(t, n, j) ==
    {i \in 1..Len(posts[t]) : posts[t][i].line = n /\ posts[t][i].pat = j}

\* Line n of task t is still in the body of the for loop.
InProgress(t, n) == n = Len(delivered[t]) /\ pc[t] \in {"send", "urlopen"}

\* C2 (dispatcher fan-out): every delivered line that is not in the for loop
\* any more was evaluated by every pattern, and post_record was called with the
\* trimmed line and the record type exactly once per matching pattern.
C2_FanOut ==
    \A t \in Tasks : \A n \in 1..Len(delivered[t]) :
       ~InProgress(t, n) =>
          \A j \in 1..Len(Regex(t)) :
             /\ <<n, j>> \in Range(seen[t])
             /\ Cardinality(PostsOf(t, n, j)) =
                   (IF j \in Matching(t, n) THEN 1 ELSE 0)
             /\ \A i \in PostsOf(t, n, j) :
                   posts[t][i].logline =
                      [type |-> RecType(t), content |-> Strip(delivered[t][n])]

\* Task t has read everything its file holds and dispatched it.
CaughtUp(t) ==
    /\ handle[t] # 0
    /\ pos[t] = Len(HFile(t))
    /\ ~InProgress(t, Len(delivered[t]))

\* C3 (tailer liveness): the tailer never stops, and every line appended to
\* the file is eventually delivered: a tailing task always eventually has read
\* and dispatched everything its file holds.
C3_EveryLineDelivered ==
    \A t \in Tasks : [](Tailing(t) => <>CaughtUp(t))

\* The step in which a task ends with FileNotFoundError changes nothing of any
\* other task.
C4_StepIsolated ==
    \A t \in Tasks :
       (cause[t] = "" /\ cause'[t] = "FileNotFoundError") =>
          /\ pc'[t] = "crashed"
          /\ \A u \in Tasks \ {t} :
                /\ pc'[u] = pc[u]
                /\ cause'[u] = cause[u]
                /\ handle'[u] = handle[u]
                /\ pos'[u] = pos[u]
                /\ delivered'[u] = delivered[u]
                /\ posts'[u] = posts[u]

\* A task ended by FileNotFoundError never had a handle and delivered nothing,
\* and every other task that is not ended itself can take its next step.
C4_OthersRun ==
    \A t \in Tasks :
       cause[t] = "FileNotFoundError" =>
          /\ handle[t] = 0
          /\ delivered[t] = <<>>
          /\ \A u \in Tasks \ {t} : pc[u] # "crashed" => ENABLED TaskNext(u)

\* C4 (task fault isolation): a task whose file is missing when it opens it
\* ends alone: the step changes nothing of any other task, and every other
\* task goes on tailing and dispatching its own file.
C4_FaultIsolation == []C4_OthersRun /\ [][C4_StepIsolated]_vars

\* One task ended by its missing file, the other one posting a record.
C4_Witness ==
    \E t \in Tasks : \E u \in Tasks \ {t} :
       /\ cause[t] = "FileNotFoundError"
       /\ pc[u] = "urlopen"
       /\ posts[u] # <<>>

\* What the undecorated parser of the logline's type gives.
Inner(l) == IF l.type = "ufw_block" THEN UfwBlock(l) ELSE SshInvalid(l)

\* The geolocation lookup for the record parsed from l fails: the record has
\* no address, or the database cannot resolve it.
GeoFails(l) ==
    \/ "SRC" \notin DOMAIN Inner(l).val.parsed
    \/ ~GeoData(Inner(l).val.parsed["SRC"]).ok

Last(s) == s[Len(s)]

\* C5 (geo failure isolation): a call of main whose logline parses and whose
\* geolocation lookup fails returns normally, and its record, with all the
\* parsed fields, is appended to the history and is in the history the rate
\* estimator got.
C5_GeoIsolation ==
    (/\ logline # NoLogline
     /\ Inner(logline).ok
     /\ ~Inner(logline).none
     /\ GeoFails(logline))
    => /\ apc = "run"
       /\ exc = ""
       /\ record # <<>>
       /\ \A key \in DOMAIN Inner(logline).val.parsed :
             Last(record)[key] = Inner(logline).val.parsed[key]
       /\ resp.history # <<>>
       /\ Last(resp.history) = Last(record)

\* The sub-formats of a record type: the delimiter and the number of payload
\* tokens its field layout needs.
SubFormats(type) ==
    IF type = "ufw_block" THEN {<<D_UFW, 0>>}
    ELSE {<<D_INV, 5>>, <<D_AUTH, 4>>}

\* Where token d occurs in content c.
Occ(c, d) == {i \in 1..Len(c) : c[i] = d}

Before(c, d) == SubSeq(c, 1, (CHOOSE i \in Occ(c, d) : TRUE) - 1)

After(c, d) == SubSeq(c, (CHOOSE i \in Occ(c, d) : TRUE) + 1, Len(c))

\* Content c is of the sub-format with delimiter d and n payload tokens: d
\* occurs once, after a month, a day, a time and a host, before n tokens.
Fits(c, d, n) ==
    /\ Cardinality(Occ(c, d)) = 1
    /\ LET words == SelectSeq(Before(c, d), LAMBDA w : w # "")
       IN /\ Len(words) >= 4
          /\ MonthNo(words[1]) # 0
          /\ DayNo(words[2]) # 0
          /\ words[3] \in TimesOfDay
    /\ Len(After(c, d)) >= n

\* C6 (parse failure is non-fatal): a call of main whose logline is of none of
\* the sub-formats of its type returns without an exception, and the
\* simulation goes on.
C6_ParseFailureNonFatal ==
    (/\ logline # NoLogline
     /\ \A f \in SubFormats(logline.type) : ~Fits(logline.content, f[1], f[2]))
    => apc = "run" /\ exc = ""

\* parse_ssh_invalid gives USERNAME, SRC and DPT of logline l from the tokens
\* iu, is and id (0-based) of the payload after delimiter d, and the record
\* main returns has these fields.
C7_Layout(l, d, iu, is, id) ==
    LET r == SshInvalid(l)
        pay == After(l.content, d)
        want == [USERNAME |-> pay[iu + 1], SRC |-> pay[is + 1], DPT |-> pay[id + 1]]
    IN /\ r.ok
       /\ ~r.none
       /\ r.val.parsed = want
       /\ (apc = "run" =>
              \A key \in DOMAIN want : resp.record[key] = want[key])

\* C7 (parser fallback order): for a logline of the first sub-format,
\* parse_ssh_invalid gives USERNAME, SRC and DPT from payload tokens 0, 2 and
\* 4; for one of the second sub-format without the first delimiter it does not
\* fail and gives them from tokens 0, 1 and 3.
C7_FallbackOrder ==
    (logline # NoLogline /\ logline.type = "ssh_invalid") =>
       /\ Fits(logline.content, D_INV, 5) => C7_Layout(logline, D_INV, 0, 2, 4)
       /\ (Occ(logline.content, D_INV) = {} /\ Fits(logline.content, D_AUTH, 4))
             => C7_Layout(logline, D_AUTH, 0, 1, 3)

\* A logline of the second sub-format only, parsed and returned by main.
C7_Witness ==
    /\ apc = "run"
    /\ logline # NoLogline
    /\ logline.type = "ssh_invalid"
    /\ Occ(logline.content, D_INV) = {}
    /\ Fits(logline.content, D_AUTH, 4)
    /\ resp.record.SRC = "1.2.3.4"
    /\ resp.record.DPT = "22"

\* C8 (transmission failure is non-fatal): from urlopen a task goes on to the
\* next pattern of the same line or to the next line, whatever urlopen did.
C8_PostNonFatal ==
    [][\A t \in Tasks : pc[t] = "urlopen" => pc'[t] \in {"urlopen", "send", "read"}]_vars

\* C9 (no shared mutable state): no piece of state is written by two tasks;
\* here, samples.jsonl has one writer.
C9_NoSharedWrites ==
    Cardinality({samples[i].task : i \in 1..Len(samples)}) <= 1

\* C10 (reopen after rotation): when the file at the path of a tailing task is
\* no longer the one its handle refers to, the task eventually holds a handle
\* to the file at the path (or has ended).
C10_Reopen ==
    \A t \in Tasks :
       [](Tailing(t) /\ handle[t] < Len(files[Logfile(t)])
             => <>(handle[t] = Len(files[Logfile(t)]) \/ pc[t] = "crashed"))

\* C11 (read errors are retried): whatever a readline on the handle does, the
\* task is still running after it: it holds a line, sleeps, or reads again.
C11_ReadRetried ==
    [][\A t \in Tasks : pc[t] = "read" => pc'[t] \in {"read", "sleep", "send"}]_vars

\* The (line, pattern) of the i-th post_record call of task t.
PostKey(t, i) == <<posts[t][i].line, posts[t][i].pat>>

\* (line, pattern) a comes before b: an earlier line, or the same line and an
\* earlier pattern of the configured list.
KeyBefore(a, b) == a[1] < b[1] \/ (a[1] = b[1] /\ a[2] < b[2])

\* C12 (output ordering within one dispatcher): the posts of a task are in
\* line order and, for one line, in pattern order; every line before the last
\* one read was tested against every pattern and has all its posts made; and
\* a post that has not returned is a post of the last line read.
C12_OutputOrder ==
    \A t \in Tasks :
       /\ \A i, j \in 1..Len(posts[t]) :
             i < j => KeyBefore(PostKey(t, i), PostKey(t, j))
       /\ \A n \in 1..(Len(delivered[t]) - 1) : \A j \in 1..Len(Regex(t)) :
             /\ <<n, j>> \in Range(seen[t])
             /\ j \in Matching(t, n) => PostsOf(t, n, j) # {}
       /\ pc[t] = "urlopen" =>
             /\ posts[t] # <<>>
             /\ Last(posts[t]).line = Len(delivered[t])

\* A task that posted one line for two patterns, and then a later line.
C12_Witness ==
    \E t \in Tasks : \E i \in 1..Len(posts[t]) : \E j \in 1..Len(posts[t]) :
       /\ i + 1 < j
       /\ posts[t][i].line = posts[t][i + 1].line
       /\ posts[t][i].line < posts[t][j].line

\* The arrival timestamps of the records of type ty in history h, in history
\* order.
TimesOf(h, ty) ==
    LET of == SelectSeq(h, LAMBDA r : ~IsNone(r) /\ r.type = ty)
    IN [i \in 1..Len(of) |-> of[i].timestamp]

\* The estimate e holds a rate that is a number.
Numeric(e) == e.den # 0

\* C13 (rate value): a type with three or more timestamps, the last one not
\* the first one, is reported with its number of events as count and with the
\* rate 60 x (number of gaps) / (sum of gaps), the sum of the gaps being the
\* last timestamp minus the first; five timestamps two minutes apart give
\* count 5 and rate 1/2.
C13_RateValue ==
    \A ty \in StatTypes :
       LET v == TimesOf(hist, ty)
           n == Len(v)
       IN /\ (n >= 3 /\ v[n] # v[1]) =>
                /\ ty \in DOMAIN adct
                /\ adct[ty].count = n
                /\ Numeric(adct[ty])
                /\ adct[ty].num * (v[n] - v[1]) = 60 * (n - 1) * adct[ty].den
          /\ v = <<0, 120, 240, 360, 480>> =>
                /\ ty \in DOMAIN adct
                /\ adct[ty].count = 5
                /\ 2 * adct[ty].num = adct[ty].den

\* A history of five records of one type, two minutes apart, and its estimate.
C13_Witness ==
    \E ty \in StatTypes :
       /\ TimesOf(hist, ty) = <<0, 120, 240, 360, 480>>
       /\ ty \in DOMAIN adct
       /\ adct[ty].count = 5

\* C14 (insufficient samples): a type with one or two events in the history,
\* so with fewer than two gaps, is reported with its count and without a rate
\* that is a number.
C14_InsufficientSamples ==
    \A ty \in StatTypes :
       LET n == Len(TimesOf(hist, ty))
       IN (1 <= n /\ n <= 2) =>
             /\ ty \in DOMAIN adct
             /\ adct[ty].count = n
             /\ ~Numeric(adct[ty])

\* History h without the records of type ty.
Without(h, ty) == SelectSeq(h, LAMBDA r : IsNone(r) \/ r.type # ty)

\* All events of type ty, two or more, share one instant.
ZeroSpan(ty) ==
    LET v == TimesOf(hist, ty)
    IN Len(v) >= 2 /\ \A i \in 1..Len(v) : v[i] = v[1]

\* C15 (zero-duration span): when all events of a type share one instant, no
\* rate that is a number is reported for it, and every other type has the
\* estimate it has for the history without that type.
C15_ZeroSpan ==
    \A ty \in StatTypes :
       ZeroSpan(ty) =>
          /\ ty \in DOMAIN adct => ~Numeric(adct[ty])
          /\ LET rest == MakeStats(Without(hist, ty))
             IN \A u \in StatTypes \ {ty} :
                   /\ u \in DOMAIN adct <=> u \in DOMAIN rest
                   /\ u \in DOMAIN rest => adct[u] = rest[u]

\* One type with all its events at one instant, and another one with a rate.
C15_Witness ==
    \E ty \in StatTypes : \E u \in StatTypes \ {ty} :
       /\ ZeroSpan(ty)
       /\ u \in DOMAIN adct
       /\ Numeric(adct[u])

\* C16 (monotonic sample count): a type that has a count keeps one when a
\* record is appended to the history, and the count does not get smaller.
C16_CountMonotone ==
    [][\A ty \in DOMAIN adct :
          /\ ty \in DOMAIN adct'
          /\ adct'[ty].count >= adct[ty].count]_vars

\* The query time: no earlier than the latest arrival in the history.
Now(h) ==
    LET ts == {h[i].timestamp : i \in {j \in 1..Len(h) : ~IsNone(h[j])}}
    IN IF ts = {} THEN 0 ELSE CHOOSE x \in ts : \A y \in ts : y <= x

\* A window of four minutes.
WindowSeconds == 2 * 120

\* The records of history h that arrived within the window before Now(h).
InWindow(h) ==
    SelectSeq(h, LAMBDA r : IsNone(r) \/ r.timestamp >= Now(h) - WindowSeconds)

\* C17 (trailing window): the estimates are those of the records that arrived
\* within the window; older records change neither count nor rate.
C17_TrailingWindow == adct = MakeStats(InWindow(hist))

\* All of s but its last element.
Front(s) == SubSeq(s, 1, Len(s) - 1)

\* C18 (history is append-only): after a call of main that returned, the
\* history it handed to make_stats and make_page is the prior history, in
\* order, followed by the new record when there is one, and the prior history
\* alone when there is none.
C18_HistoryAppendOnly ==
    (apc = "run" /\ record # <<>>) =>
       resp.history = IF IsNone(Last(record)) THEN Front(record) ELSE record

\* The payload of a firewall-block content: the tokens after the delimiter.
UfwPayload(c) == SplitSpace(After(c, D_UFW))

\* The field a KEY=VALUE token gives: the value, None when it is empty.
FieldOf(tok) == IF SplitEq(tok)[2] = "" THEN None ELSE SplitEq(tok)[2]

\* C19 (firewall-block field extraction): for a logline of the firewall-block
\* format whose payload names no key twice, parse_ufw_block gives exactly one
\* field per KEY=VALUE token, with the value or None for an empty one, and
\* none for a token without "="; when main returns, the record has these
\* fields and the geolocation of its SRC field. The payload
\* SRC=1.2.3.4 DPT=22 PROTO=TCP gives SRC, DPT and PROTO and is located by
\* 1.2.3.4.
C19_UfwFields ==
    (/\ logline # NoLogline
     /\ logline.type = "ufw_block"
     /\ Fits(logline.content, D_UFW, 0))
    => LET pay == UfwPayload(logline.content)
           kv == {i \in 1..Len(pay) : Len(SplitEq(pay[i])) = 2}
           r == UfwBlock(logline)
       IN /\ r.ok
          /\ ~r.none
          /\ DOMAIN r.val.parsed = {SplitEq(pay[i])[1] : i \in kv}
          /\ \A i \in kv : r.val.parsed[SplitEq(pay[i])[1]] = FieldOf(pay[i])
          /\ apc = "run" =>
                /\ \A key \in DOMAIN r.val.parsed :
                      resp.record[key] = r.val.parsed[key]
                /\ resp.record.geoip = GeoData(r.val.parsed["SRC"]).val
          /\ pay = <<"SRC=1.2.3.4", "DPT=22", "PROTO=TCP">> =>
                /\ r.val.parsed =
                      [SRC |-> "1.2.3.4", DPT |-> "22", PROTO |-> "TCP"]
                /\ apc = "run"
                /\ resp.record.geoip = GeoData("1.2.3.4").val

\* main returned the record of the payload SRC=1.2.3.4 DPT=22 PROTO=TCP.
C19_Witness ==
    /\ apc = "run"
    /\ logline # NoLogline
    /\ logline.type = "ufw_block"
    /\ Fits(logline.content, D_UFW, 0)
    /\ UfwPayload(logline.content) = <<"SRC=1.2.3.4", "DPT=22", "PROTO=TCP">>
    /\ resp.record.SRC = "1.2.3.4"
    /\ resp.record.geoip.iso_code = "US"

\* C20 (whole-line delivery): every line tail yielded ends with a newline and
\* is one of the lines of the file.
C20_WholeLines ==
    \A t \in Tasks : \A n \in 1..Len(delivered[t]) :
       /\ Last(delivered[t][n]) = "\n"
       /\ delivered[t][n] \in Range(Lines(HFile(t)))
====
